-------------------------- MODULE Spec2Model --------------------------
(***************************************************************************)
(* The read-only Bash guard of ClaudePod                                   *)
(* (code-directive/scripts/guard-readonly-bash.py): the PreToolUse hook    *)
(* that classifies a shell command line as read-only or blocked, in the    *)
(* modes general-readonly and git-readonly.                                *)
(*                                                                         *)
(* A command line is a TLA+ string; TLC treats a string as a sequence of   *)
(* one-character strings under Len, SubSeq and \o, so the regular          *)
(* expressions of the source are modelled character by character.  SANY    *)
(* rejects a back-tick inside a string literal: the back-tick is written   *)
(* BQ throughout.                                                          *)
(***************************************************************************)
EXTENDS Naturals, Sequences, FiniteSets, TLC

VARIABLES
    corpus,      \* which vocabulary the command line is typed from
    typed,       \* the command line typed so far
    pieces,      \* how many vocabulary pieces it is made of
    argv,        \* sys.argv of the hook process
    stdin,       \* what the hook reads from standard input
    pc,          \* "typing": no hook process yet; "exited": it has run; "idle": the environment acted
    exit_code,   \* the hook's exit status
    stdout,      \* what the hook wrote to standard output ("" for nothing)
    tmp,         \* /tmp/claude-edited-files-<session_id>, by session id
    disk,        \* the source files that exist
    formatted    \* what the last Stop hook handed to the formatters

vars == <<corpus, typed, pieces, argv, stdin, pc, exit_code, stdout,
          tmp, disk, formatted>>

\* ------------------------------------------------------------------
\* Characters and Python's string primitives
\* ------------------------------------------------------------------

\* The back-tick character.
BQ == "^"

\* What \s, str.strip() and str.split() treat as white space.
Whitespace == {" ", "\t", "\n"}

\* command[i], as a one-character string.
Char(s, i) == SubSeq(s, i, i)

\* s[i:], with i counted from 1.
From(s, i) == SubSeq(s, i, Len(s))

\* sub in s
Contains(s, sub) ==
    \E i \in 1..(Len(s) - Len(sub) + 1) : SubSeq(s, i, i + Len(sub) - 1) = sub

\* s.startswith(p)
StartsWith(s, p) == Len(s) >= Len(p) /\ SubSeq(s, 1, Len(p)) = p

\* The text at position i of s is lit.
At(s, i, lit) == i >= 1 /\ i + Len(lit) - 1 <= Len(s) /\ SubSeq(s, i, i + Len(lit) - 1) = lit

\* str.strip()
RECURSIVE LStrip(_)
LStrip(s) ==
    IF s # "" /\ Char(s, 1) \in Whitespace THEN LStrip(From(s, 2)) ELSE s

RECURSIVE RStrip(_)
RStrip(s) ==
    IF s # "" /\ Char(s, Len(s)) \in Whitespace
    THEN RStrip(SubSeq(s, 1, Len(s) - 1))
    ELSE s

Strip(s) == RStrip(LStrip(s))

\* [p.strip() for p in parts if p.strip()]
StripAll(parts) ==
    LET stripped == [k \in 1..Len(parts) |-> Strip(parts[k])]
    IN  SelectSeq(stripped, LAMBDA p : p # "")

\* The least and the greatest of a non-empty set of positions.
Min(S) == CHOOSE x \in S : \A y \in S : x <= y
Max(S) == CHOOSE x \in S : \A y \in S : x >= y

\* str.split(): the maximal runs of non-white-space characters, in
\* order.
Split(s) ==
    LET IsWS(i) == i < 1 \/ i > Len(s) \/ Char(s, i) \in Whitespace
        starts == {i \in 1..Len(s) : ~IsWS(i) /\ IsWS(i - 1)}
        EndOf(i) == Min({j \in i..Len(s) : IsWS(j + 1)})
        Nth(k) == CHOOSE i \in starts : Cardinality({j \in starts : j < i}) = k - 1
    IN  [k \in 1..Cardinality(starts) |-> SubSeq(s, Nth(k), EndOf(Nth(k)))]

\* command.replace("\\\n", " ")
RECURSIVE ReplaceContinuation(_)
ReplaceContinuation(s) ==
    LET hits == {i \in 1..Len(s) : At(s, i, "\\\n")}
    IN  IF hits = {} THEN s
        ELSE SubSeq(s, 1, Min(hits) - 1) \o " "
                 \o ReplaceContinuation(From(s, Min(hits) + 2))

\* words[k:], with k counted from 1 (Python's words[k-1:]).
Rest(words, k) == SubSeq(words, k, Len(words))

\* The elements of a sequence.
Range(seq) == {seq[k] : k \in 1..Len(seq)}

\* ------------------------------------------------------------------
\* The rule tables
\* ------------------------------------------------------------------

WRITE_COMMANDS ==
  {
    "rm", "mv", "cp", "mkdir", "rmdir", "touch", "chmod", "chown", "chgrp",
    "ln", "install", "mkfifo", "mknod", "truncate", "shred", "unlink",
    "nano", "vi", "vim", "nvim", "kill", "pkill", "killall", "dd", "sudo",
    "su", "tee", "eval", "exec", "source", "xargs"
  }

INTERPRETERS ==
  {
    "bash", "sh", "zsh", "dash", "ksh", "fish", "python", "python3", "node",
    "perl", "ruby"
  }

GIT_SAFE_SUBCOMMANDS ==
  {
    "log", "blame", "show", "diff", "bisect", "reflog", "shortlog",
    "rev-parse", "rev-list", "branch", "tag", "remote", "status", "ls-files",
    "ls-tree", "cat-file", "describe", "name-rev", "grep", "for-each-ref",
    "count-objects", "fsck", "verify-commit", "verify-tag", "fetch", "stash",
    "notes", "worktree", "config", "help", "version"
  }

READONLY_UTILITIES ==
  {
    "cat", "head", "tail", "less", "more", "bat", "wc", "sort", "uniq",
    "cut", "tr", "paste", "column", "fold", "sed", "awk", "gawk", "grep",
    "egrep", "fgrep", "rg", "ag", "ack", "find", "ls", "tree", "file",
    "stat", "du", "df", "echo", "printf", "diff", "comm", "cmp", "jq", "yq",
    "basename", "dirname", "realpath", "readlink", "date", "cal", "env",
    "printenv", "id", "whoami", "uname", "hostname", "pwd", "uptime",
    "nproc", "arch", "true", "false", "test", "[", "which", "type",
    "command", "seq", "expr", "bc", "tput", "clear", "md5sum", "sha256sum",
    "sha1sum", "xxd", "od", "hexdump", "strings", "curl", "ssh", "ast-grep",
    "sg"
  }

WRITE_PREFIXES ==
  <<
    "docker stop", "docker rm", "docker kill", "docker rmi", "docker exec",
    "docker-compose down", "docker compose down", "git push", "git reset",
    "git clean", "git merge", "git rebase", "git commit", "git cherry-pick",
    "git revert", "git pull", "git checkout --", "git restore",
    "git stash drop", "git stash clear", "git stash pop", "git config",
    "git remote add", "git remote remove", "git remote rename",
    "git branch -d", "git branch -D", "git branch --delete", "git branch -m",
    "git branch -M", "git branch --move", "git tag -d", "git tag --delete",
    "pip install", "pip uninstall", "pip3 install", "pip3 uninstall",
    "uv pip", "npm install", "npm uninstall", "npm ci", "npm update",
    "npm link", "yarn add", "yarn remove", "yarn install", "pnpm add",
    "pnpm remove", "pnpm install", "apt install", "apt-get install",
    "apt remove", "apt-get remove", "cargo install", "sed -i",
    "sed --in-place"
  >>

INLINE_FLAGS ==
    [python |-> "-c", python3 |-> "-c", node |-> "-e", perl |-> "-e",
     ruby |-> "-e", bash |-> "-c", sh |-> "-c", zsh |-> "-c"]

GIT_RESTRICTED_ARGS ==
    [branch |-> {"-d", "-D", "-m", "-M", "--delete", "--move", "--copy", "-c", "-C"},
     tag |-> {"-d", "--delete", "-f", "--force"},
     remote |-> {"add", "remove", "rename", "set-url", "set-head", "prune"},
     stash |-> {"drop", "clear", "pop", "apply", "push", "save", "create", "store"},
     worktree |-> {"add", "remove", "prune", "repair", "move", "lock", "unlock"},
     notes |-> {"add", "append", "copy", "edit", "merge", "prune", "remove"},
     config |-> {}]

\* The git options whose value is the next token (check_git_readonly).
GIT_VALUE_FLAGS == {"-C", "-c", "--git-dir", "--work-tree"}

\* The flags that make git config a read (check_git_readonly, safe_flags).
GIT_CONFIG_SAFE_FLAGS == {"--get", "--get-all", "--list", "-l", "--get-regexp"}

\* ------------------------------------------------------------------
\* Command parsing helpers
\* ------------------------------------------------------------------

\* The length of the separator that matches at position i, 0 when none
\* does.  For segments, r"\s*(?:;|&&|\|\||(?<![&])&(?![&]))\s*" without
\* the white space it eats around a separator (which stays on the pieces
\* here; _split_segments strips every piece), the first alternative that
\* matches taken.  For pipes, r"(?<!\|)\|(?!\|)".
SeparatorLen(kind, s, i) ==
    IF kind = "segments"
    THEN IF At(s, i, ";") THEN 1
         ELSE IF At(s, i, "&&") \/ At(s, i, "||") THEN 2
         ELSE IF At(s, i, "&") /\ ~At(s, i - 1, "&") /\ ~At(s, i + 1, "&") THEN 1
         ELSE 0
    ELSE IF At(s, i, "|") /\ ~At(s, i - 1, "|") /\ ~At(s, i + 1, "|") THEN 1
         ELSE 0

\* re.split(pattern, s): the text between the matches, each match the
\* leftmost one at or after the end of the one before.
RECURSIVE ReSplit(_, _, _)
ReSplit(kind, s, start) ==
    LET hits == {i \in start..Len(s) : SeparatorLen(kind, s, i) > 0}
    IN  IF hits = {} THEN <<SubSeq(s, start, Len(s))>>
        ELSE <<SubSeq(s, start, Min(hits) - 1)>>
                 \o ReSplit(kind, s, Min(hits) + SeparatorLen(kind, s, Min(hits)))

_split_segments(command) ==
    StripAll(ReSplit("segments", ReplaceContinuation(command), 1))

_split_pipes(segment) == StripAll(ReSplit("pipes", segment, 1))

\* A word the loop of _get_cmd_words skips while result is empty.
IsAssignment(word) == Contains(word, "=") /\ ~StartsWith(word, "-")

RECURSIVE DropAssignments(_)
DropAssignments(words) ==
    IF words # <<>> /\ IsAssignment(Head(words))
    THEN DropAssignments(Tail(words))
    ELSE words

\* The extraction that skips assignment-shaped words wherever they
\* stand: the variant the assignment property must tell apart.
_get_cmd_words_SkipEverywhere(stage) ==
    SelectSeq(Split(stage), LAMBDA word : ~IsAssignment(word))

_get_cmd_words(stage) == DropAssignments(Split(stage))

\* cmd.lstrip("\\")
RECURSIVE LStripBackslash(_)
LStripBackslash(cmd) ==
    IF cmd # "" /\ Char(cmd, 1) = "\\" THEN LStripBackslash(From(cmd, 2)) ELSE cmd

\* cmd.rsplit("/", 1)[-1]
AfterLastSlash(cmd) ==
    From(cmd, Max({i \in 1..Len(cmd) : Char(cmd, i) = "/"}) + 1)

_base_name(cmd) ==
    LET c == LStripBackslash(cmd)
    IN  IF Contains(c, "/") THEN AfterLastSlash(c) ELSE c

\* while rest and rest[0].startswith("-"): rest = rest[1:]
RECURSIVE DropFlags(_)
DropFlags(rest) ==
    IF rest # <<>> /\ StartsWith(Head(rest), "-") THEN DropFlags(Tail(rest)) ELSE rest

\* The resolution that takes the token right after command or builtin,
\* flag or not: the variant the indirection property must tell apart.
_resolve_prefix_KeepFlags(words) ==
    IF words = <<>> THEN [base |-> "", words |-> <<>>]
    ELSE LET base == _base_name(words[1])
         IN  IF base \in {"command", "builtin"}
             THEN LET rest == Tail(words)
                  IN  IF rest # <<>>
                      THEN [base |-> _base_name(rest[1]), words |-> rest]
                      ELSE [base |-> "", words |-> <<>>]
             ELSE [base |-> base, words |-> words]

\* The pair (base, words) as a record.
_resolve_prefix(words) ==
    IF words = <<>> THEN [base |-> "", words |-> <<>>]
    ELSE LET base == _base_name(words[1])
         IN  IF base \in {"command", "builtin"}
             THEN LET rest == DropFlags(Tail(words))
                  IN  IF rest # <<>>
                      THEN [base |-> _base_name(rest[1]), words |-> rest]
                      ELSE [base |-> "", words |-> <<>>]
             ELSE [base |-> base, words |-> words]

\* The position after the white space that starts at i.
RECURSIVE SkipWS(_, _)
SkipWS(s, i) ==
    IF i <= Len(s) /\ Char(s, i) \in Whitespace THEN SkipWS(s, i + 1) ELSE i

\* The end (exclusive) of a match of r"[12]?>{1,2}\s*/dev/null" that
\* starts at i, or 0 when none does.
DevNullMatchEnd(s, i) ==
    LET g == IF Char(s, i) \in {"1", "2"} THEN i + 1 ELSE i
        w == IF At(s, g, ">>") THEN SkipWS(s, g + 2) ELSE SkipWS(s, g + 1)
    IN  IF At(s, g, ">") /\ At(s, w, "/dev/null") THEN w + 9 ELSE 0

\* re.sub(r"[12]?>{1,2}\s*/dev/null", "", command)
RECURSIVE StripDevNull(_, _)
StripDevNull(s, start) ==
    LET hits == {i \in start..Len(s) : DevNullMatchEnd(s, i) # 0}
    IN  IF hits = {} THEN SubSeq(s, start, Len(s))
        ELSE SubSeq(s, start, Min(hits) - 1)
                 \o StripDevNull(s, DevNullMatchEnd(s, Min(hits)))

\* One or two ">" at g, white space, then a character that is none of
\* white space, "&", "|", ";".
RedirectAt(s, g) ==
    \E n \in {1, 2} :
        /\ \A k \in 0..(n - 1) : At(s, g + k, ">")
        /\ LET t == SkipWS(s, g + n)
           IN  t <= Len(s) /\ Char(s, t) \notin (Whitespace \cup {"&", "|", ";"})

\* re.search(r"(?:^|[\s)])(?:[12])?>{1,2}\s*[^\s&|;]", cleaned)
_has_redirect(command) ==
    LET cleaned == StripDevNull(command, 1)
        Anchored(g) == g = 1 \/ Char(cleaned, g - 1) \in (Whitespace \cup {")"})
    IN  \E g \in 1..Len(cleaned) :
            /\ RedirectAt(cleaned, g)
            /\ \/ Anchored(g)
               \/ g > 1 /\ Char(cleaned, g - 1) \in {"1", "2"} /\ Anchored(g - 1)

_has_command_substitution(command) ==
    Contains(command, "$(") \/ Contains(command, BQ)

\* The position of the first occurrence of character ch in s at or after
\* i, or 0.
Find(s, ch, i) ==
    LET hits == {j \in i..Len(s) : Char(s, j) = ch}
    IN  IF hits = {} THEN 0 ELSE Min(hits)

\* [m.group(1) for m in re.finditer(open ([^close]+) close, command)]
RECURSIVE FindGroups(_, _, _, _)
FindGroups(s, open, close, start) ==
    LET End(i) == Find(s, close, i + Len(open))
        hits == {i \in start..Len(s) : At(s, i, open) /\ End(i) > i + Len(open)}
    IN  IF hits = {} THEN <<>>
        ELSE <<SubSeq(s, Min(hits) + Len(open), End(Min(hits)) - 1)>>
                 \o FindGroups(s, open, close, End(Min(hits)) + 1)

\* The extraction with m.group(0) for m.group(1): every group with its
\* delimiters, the variant the termination property must tell apart.
RECURSIVE FindMatches(_, _, _, _)
FindMatches(s, open, close, start) ==
    LET End(i) == Find(s, close, i + Len(open))
        hits == {i \in start..Len(s) : At(s, i, open) /\ End(i) > i + Len(open)}
    IN  IF hits = {} THEN <<>>
        ELSE <<SubSeq(s, Min(hits), End(Min(hits)))>>
                 \o FindMatches(s, open, close, End(Min(hits)) + 1)

_extract_substitution_commands_WholeMatch(command) ==
    FindMatches(command, "$(", ")", 1) \o FindMatches(command, BQ, BQ, 1)

_extract_substitution_commands(command) ==
    FindGroups(command, "$(", ")", 1) \o FindGroups(command, BQ, BQ, 1)

\* The loop of _has_sed_inplace over words[1:].
_has_sed_inplace(words) ==
    \E k \in 2..Len(words) :
        \/ words[k] = "-i" \/ words[k] = "--in-place" \/ StartsWith(words[k], "-i")
        \/ StartsWith(words[k], "-") /\ ~StartsWith(words[k], "--") /\ Contains(words[k], "i")

\* prefix.split() for every entry of WRITE_PREFIXES: the table is constant,
\* so each entry is split once.
WRITE_PREFIX_WORDS == [k \in 1..Len(WRITE_PREFIXES) |-> Split(WRITE_PREFIXES[k])]

\* _matches_prefix(cmd_words, WRITE_PREFIXES[k])
_matches_prefix(cmd_words, k) ==
    LET pwords == WRITE_PREFIX_WORDS[k]
    IN  Len(cmd_words) >= Len(pwords) /\ SubSeq(cmd_words, 1, Len(pwords)) = pwords

\* ------------------------------------------------------------------
\* Mode checkers
\* ------------------------------------------------------------------

\* Python's None, as a reason: every reason the checkers return is a
\* non-empty string, and the callers only test `if result:`.
None == ""

\* The pipe stages of a command line in the order the two checkers visit
\* them, each with its index i inside its segment (enumerate, from 0).
StagesOf(command) ==
    LET segments == _split_segments(command)
        Indexed(segment) ==
            LET stages == _split_pipes(segment)
            IN  [k \in 1..Len(stages) |-> [i |-> k - 1, stage |-> stages[k]]]
        RECURSIVE Flat(_)
        Flat(n) == IF n > Len(segments) THEN <<>>
                   ELSE Indexed(segments[n]) \o Flat(n + 1)
    IN  Flat(1)

\* The first reason a stage check returns over the stages, or None.
FirstReason(stages, Check(_, _)) ==
    LET reasons == [k \in 1..Len(stages) |-> Check(stages[k].i, stages[k].stage)]
        hits == SelectSeq(reasons, LAMBDA r : r # None)
    IN  IF hits = <<>> THEN None ELSE hits[1]

\* The loop body with the pipe rule applied from the third stage of a
\* segment on only: the variant the pipe property must tell apart.
GeneralStage_PipeFromThirdStage(i, stage) ==
    LET resolved == _resolve_prefix(_get_cmd_words(stage))
        base == resolved.base
        words == resolved.words
        cmd_words == <<base>> \o Tail(words)
        matching == {k \in 1..Len(WRITE_PREFIXES) : _matches_prefix(cmd_words, k)}
        wp == WRITE_PREFIXES[CHOOSE k \in matching : \A j \in matching : k <= j]
    IN  IF base = "" THEN None
        ELSE IF base \in WRITE_COMMANDS
             THEN "Blocked: '" \o base \o "' is not allowed in read-only mode"
        ELSE IF matching # {}
             THEN "Blocked: '" \o wp \o "' is not allowed in read-only mode"
        ELSE IF i > 1 /\ base \in INTERPRETERS
             THEN "Blocked: piping into '" \o base \o "' is not allowed in read-only mode"
        ELSE IF base \in DOMAIN INLINE_FLAGS /\ INLINE_FLAGS[base] \in Range(Tail(words))
             THEN "Blocked: '" \o base \o " " \o INLINE_FLAGS[base]
                      \o "' inline execution is not allowed in read-only mode"
        ELSE None

\* The loop body with the inline-execution rule tried before the pipe
\* rule: the variant the priority property must tell apart.
GeneralStage_InlineBeforePipe(i, stage) ==
    LET resolved == _resolve_prefix(_get_cmd_words(stage))
        base == resolved.base
        words == resolved.words
        cmd_words == <<base>> \o Tail(words)
        matching == {k \in 1..Len(WRITE_PREFIXES) : _matches_prefix(cmd_words, k)}
        wp == WRITE_PREFIXES[CHOOSE k \in matching : \A j \in matching : k <= j]
    IN  IF base = "" THEN None
        ELSE IF base \in WRITE_COMMANDS
             THEN "Blocked: '" \o base \o "' is not allowed in read-only mode"
        ELSE IF matching # {}
             THEN "Blocked: '" \o wp \o "' is not allowed in read-only mode"
        ELSE IF base \in DOMAIN INLINE_FLAGS /\ INLINE_FLAGS[base] \in Range(Tail(words))
             THEN "Blocked: '" \o base \o " " \o INLINE_FLAGS[base]
                      \o "' inline execution is not allowed in read-only mode"
        ELSE IF i > 0 /\ base \in INTERPRETERS
             THEN "Blocked: piping into '" \o base \o "' is not allowed in read-only mode"
        ELSE None

\* The loop body with the inline flag looked for in the first argument
\* only: the variant the inline-execution property must tell apart.
GeneralStage_InlineFlagFirstArgument(i, stage) ==
    LET resolved == _resolve_prefix(_get_cmd_words(stage))
        base == resolved.base
        words == resolved.words
        cmd_words == <<base>> \o Tail(words)
        matching == {k \in 1..Len(WRITE_PREFIXES) : _matches_prefix(cmd_words, k)}
        wp == WRITE_PREFIXES[CHOOSE k \in matching : \A j \in matching : k <= j]
    IN  IF base = "" THEN None
        ELSE IF base \in WRITE_COMMANDS
             THEN "Blocked: '" \o base \o "' is not allowed in read-only mode"
        ELSE IF matching # {}
             THEN "Blocked: '" \o wp \o "' is not allowed in read-only mode"
        ELSE IF i > 0 /\ base \in INTERPRETERS
             THEN "Blocked: piping into '" \o base \o "' is not allowed in read-only mode"
        ELSE IF /\ base \in DOMAIN INLINE_FLAGS
                /\ Len(words) >= 2 /\ words[2] = INLINE_FLAGS[base]
             THEN "Blocked: '" \o base \o " " \o INLINE_FLAGS[base]
                      \o "' inline execution is not allowed in read-only mode"
        ELSE None

\* The body of check_general_readonly's loop for stage number i.
GeneralStage(i, stage) ==
    LET resolved == _resolve_prefix(_get_cmd_words(stage))
        base == resolved.base
        words == resolved.words
        cmd_words == <<base>> \o Tail(words)
        matching == {k \in 1..Len(WRITE_PREFIXES) : _matches_prefix(cmd_words, k)}
        wp == WRITE_PREFIXES[CHOOSE k \in matching : \A j \in matching : k <= j]
    IN  IF base = "" THEN None
        ELSE IF base \in WRITE_COMMANDS
             THEN "Blocked: '" \o base \o "' is not allowed in read-only mode"
        ELSE IF matching # {}
             THEN "Blocked: '" \o wp \o "' is not allowed in read-only mode"
        ELSE IF i > 0 /\ base \in INTERPRETERS
             THEN "Blocked: piping into '" \o base \o "' is not allowed in read-only mode"
        ELSE IF base \in DOMAIN INLINE_FLAGS /\ INLINE_FLAGS[base] \in Range(Tail(words))
             THEN "Blocked: '" \o base \o " " \o INLINE_FLAGS[base]
                      \o "' inline execution is not allowed in read-only mode"
        ELSE None

RECURSIVE check_general_readonly(_)
check_general_readonly(command) ==
    IF _has_redirect(command)
    THEN "Blocked: output redirection (> or >>) is not allowed in read-only mode"
    ELSE IF /\ _has_command_substitution(command)
            /\ \E inner \in Range(_extract_substitution_commands(command)) :
                   check_general_readonly(inner) # None
    THEN "Blocked: command substitution contains a write operation"
    ELSE FirstReason(StagesOf(command), GeneralStage)

\* The loop of check_git_readonly that finds the subcommand among
\* words[1:]: None when every token is a flag or a flag's value.
RECURSIVE GitSubcommand(_, _, _)
GitSubcommand(words, k, skip_next) ==
    IF k > Len(words) THEN None
    ELSE IF skip_next THEN GitSubcommand(words, k + 1, FALSE)
    ELSE IF words[k] \in GIT_VALUE_FLAGS THEN GitSubcommand(words, k + 1, TRUE)
    ELSE IF StartsWith(words[k], "-") THEN GitSubcommand(words, k + 1, FALSE)
    ELSE words[k]

\* The checks on a git stage whose subcommand is in the allowlist.
GitRestricted(sub, words) ==
    IF sub \notin DOMAIN GIT_RESTRICTED_ARGS THEN None
    ELSE IF sub = "config"
         THEN IF Range(Rest(words, 3)) \cap GIT_CONFIG_SAFE_FLAGS = {}
              THEN "Blocked: 'git config' is only allowed with --get or --list"
              ELSE None
    ELSE IF sub = "stash"
         THEN IF Len(words) > 2 /\ words[3] \notin {"list", "show"}
              THEN "Blocked: 'git stash " \o words[3] \o "' is not allowed in read-only mode"
              ELSE None
    ELSE LET hits == SelectSeq(Rest(words, 3), LAMBDA w : w \in GIT_RESTRICTED_ARGS[sub])
         IN  IF hits # <<>>
             THEN "Blocked: 'git " \o sub \o " " \o hits[1] \o "' is not allowed in read-only mode"
             ELSE None

\* The loop body that lets a base outside the allowlist pass unless it
\* is a write command: the variant the default-deny property must tell
\* apart.
GitStage_DenyWritesOnly(i, stage) ==
    LET resolved == _resolve_prefix(_get_cmd_words(stage))
        base == resolved.base
        words == resolved.words
        sub == GitSubcommand(words, 2, FALSE)
    IN  IF base = "" THEN None
        ELSE IF base = "git"
             THEN IF Len(words) < 2 \/ sub = None THEN None
                  ELSE IF sub \notin GIT_SAFE_SUBCOMMANDS
                       THEN "Blocked: 'git " \o sub \o "' is not allowed in read-only mode"
                  ELSE GitRestricted(sub, words)
        ELSE IF base \in READONLY_UTILITIES
             THEN IF base = "sed" /\ _has_sed_inplace(words)
                  THEN "Blocked: 'sed -i' (in-place edit) is not allowed in read-only mode"
                  ELSE None
        ELSE IF base \in WRITE_COMMANDS
             THEN "Blocked: '" \o base \o "' is not in the read-only allowlist"
        ELSE None

\* The loop body with git stash allowed whatever follows it: the
\* variant the strictness property must tell apart.
GitStage_StashUnrestricted(i, stage) ==
    LET resolved == _resolve_prefix(_get_cmd_words(stage))
        base == resolved.base
        words == resolved.words
        sub == GitSubcommand(words, 2, FALSE)
    IN  IF base = "" THEN None
        ELSE IF base = "git"
             THEN IF Len(words) < 2 \/ sub = None THEN None
                  ELSE IF sub \notin GIT_SAFE_SUBCOMMANDS
                       THEN "Blocked: 'git " \o sub \o "' is not allowed in read-only mode"
                  ELSE IF sub = "stash" THEN None
                  ELSE GitRestricted(sub, words)
        ELSE IF base \in READONLY_UTILITIES
             THEN IF base = "sed" /\ _has_sed_inplace(words)
                  THEN "Blocked: 'sed -i' (in-place edit) is not allowed in read-only mode"
                  ELSE None
        ELSE "Blocked: '" \o base \o "' is not in the read-only allowlist"

\* The body of check_git_readonly's loop for stage number i.
GitStage(i, stage) ==
    LET resolved == _resolve_prefix(_get_cmd_words(stage))
        base == resolved.base
        words == resolved.words
        sub == GitSubcommand(words, 2, FALSE)
    IN  IF base = "" THEN None
        ELSE IF base = "git"
             THEN IF Len(words) < 2 \/ sub = None THEN None
                  ELSE IF sub \notin GIT_SAFE_SUBCOMMANDS
                       THEN "Blocked: 'git " \o sub \o "' is not allowed in read-only mode"
                  ELSE GitRestricted(sub, words)
        ELSE IF base \in READONLY_UTILITIES
             THEN IF base = "sed" /\ _has_sed_inplace(words)
                  THEN "Blocked: 'sed -i' (in-place edit) is not allowed in read-only mode"
                  ELSE None
        ELSE "Blocked: '" \o base \o "' is not in the read-only allowlist"

RECURSIVE check_git_readonly(_)
check_git_readonly(command) ==
    IF _has_redirect(command)
    THEN "Blocked: output redirection is not allowed in read-only mode"
    ELSE IF /\ _has_command_substitution(command)
            /\ \E inner \in Range(_extract_substitution_commands(command)) :
                   check_git_readonly(inner) # None
    THEN "Blocked: command substitution contains a blocked operation"
    ELSE FirstReason(StagesOf(command), GitStage)

\* ------------------------------------------------------------------
\* Main
\* ------------------------------------------------------------------

\* What json.load makes of standard input: a record with a type tag t
\* and a value v.  t = "invalid" is text that is not JSON; an object's v
\* is a function from its keys to such records.
Invalid == [t |-> "invalid", v |-> ""]
JNull == [t |-> "null", v |-> ""]
JNum(n) == [t |-> "num", v |-> n]
JBool(b) == [t |-> "bool", v |-> b]
JStr(s) == [t |-> "str", v |-> s]
JList(items) == [t |-> "list", v |-> items]
JObj(members) == [t |-> "obj", v |-> members]

\* An object with no member, and objects with one member.
EmptyObj == JObj(<<>>)
ToolInput(value) == JObj([k \in {"tool_input"} |-> value])
Command(value) == JObj([k \in {"command"} |-> value])

\* dict.get(key, default)
Get(obj, key, default) == IF key \in DOMAIN obj.v THEN obj.v[key] ELSE default

\* Python's truth value of a decoded JSON value.
Truthy(j) ==
    CASE j.t = "null" -> FALSE
      [] j.t = "bool" -> j.v
      [] j.t = "num" -> j.v # 0
      [] j.t = "str" -> j.v # ""
      [] j.t = "list" -> j.v # <<>>
      [] j.t = "obj" -> DOMAIN j.v # {}

\* The mode the loop over sys.argv selects.
RECURSIVE ModeOf(_, _)
ModeOf(args, i) ==
    IF i > Len(args) THEN "general-readonly"
    ELSE IF args[i] = "--mode" /\ i + 1 <= Len(args) THEN args[i + 1]
    ELSE ModeOf(args, i + 1)

\* How the process ends: sys.exit(status) after writing out, or an
\* uncaught exception, which ends the interpreter with status 1 and a
\* traceback on standard error.
Exit(status, out) == [exit_code |-> status, stdout |-> out]
Uncaught == [exit_code |-> 1, stdout |-> ""]

\* main() with the git evaluator chosen for every mode value other than
\* general-readonly: the variant the mode property must tell apart.
main_GitUnlessGeneral(args, input) ==
    LET mode == ModeOf(args, 1)
        tool_input == Get(input, "tool_input", EmptyObj)
        command == Get(tool_input, "command", JStr(""))
        error == IF mode # "general-readonly"
                 THEN check_git_readonly(command.v)
                 ELSE check_general_readonly(command.v)
    IN  IF input.t = "invalid" THEN Exit(0, "")
        ELSE IF input.t # "obj" THEN Uncaught
        ELSE IF tool_input.t # "obj" THEN Uncaught
        ELSE IF ~Truthy(command) THEN Exit(0, "")
        ELSE IF command.t # "str" THEN Uncaught
        ELSE IF Strip(command.v) = "" THEN Exit(0, "")
        ELSE IF error # None THEN Exit(2, error)
        ELSE Exit(0, "")

\* main(): stdout holds the "error" member of the JSON object written,
\* "" when nothing is written.
main(args, input) ==
    LET mode == ModeOf(args, 1)
        tool_input == Get(input, "tool_input", EmptyObj)
        command == Get(tool_input, "command", JStr(""))
        error == IF mode = "git-readonly"
                 THEN check_git_readonly(command.v)
                 ELSE check_general_readonly(command.v)
    IN  IF input.t = "invalid" THEN Exit(0, "")
        ELSE IF input.t # "obj" THEN Uncaught        \* input_data.get
        ELSE IF tool_input.t # "obj" THEN Uncaught   \* tool_input.get
        ELSE IF ~Truthy(command) THEN Exit(0, "")
        ELSE IF command.t # "str" THEN Uncaught      \* command.strip
        ELSE IF Strip(command.v) = "" THEN Exit(0, "")
        ELSE IF error # None THEN Exit(2, error)
        ELSE Exit(0, "")

\* ------------------------------------------------------------------
\* The hook as a state machine
\* ------------------------------------------------------------------

\* The longest command line typed, in vocabulary pieces.
MaxPieces == 4

Program == "guard-readonly-bash.py"
General == <<Program, "--mode", "general-readonly">>
Git == <<Program, "--mode", "git-readonly">>
BothModes == {General, Git}

\* The inputs of the hook, by corpus: the pieces command lines are typed
\* from, and the argument lists the hook is started with.
Corpus ==
    [chain |->
        [pieces |-> {"true", "rm x", "echo \\" \o BQ, BQ \o "rm x" \o BQ,
                     " ; ", " && ", " || ", " & "},
         argvs |-> {General}],
     subst |->
        [pieces |-> {"echo ", "$(echo ", "$(rm x)", BQ \o "rm x" \o BQ, ")",
                     "$(docker ps)", "$(cat f)"},
         argvs |-> BothModes],
     redirect |->
        [pieces |-> {"echo hi", " ", ">", ">>", "2", "/dev/null", "/tmp/x"},
         argvs |-> BothModes],
     bypass |->
        [pieces |-> {"rm", "ls", "docker", " f", "/bin/", "/a=b/", "\\"},
         argvs |-> BothModes],
     pipe |->
        [pieces |-> {"curl x", "cat f", "grep a", "bash", "/bin/",
                     " | ", "|", " ; "},
         argvs |-> {General}],
     deny |->
        [pieces |-> {"docker ps", "git log", "cat f", "rm x", " | ", " ; ", "$(", ")"},
         argvs |-> {Git}],
     gitsub |->
        [pieces |-> {"git", " --no-pager", " -C /repo", " log", " push", " commit",
                     " branch", " -5"},
         argvs |-> {Git}],
     stash |->
        [pieces |-> {"git", " --no-pager", " -C list", " stash", " list", " show",
                     " pop", " drop"},
         argvs |-> {Git}],
     gitargs |->
        [pieces |-> {"git", " -C", " --get", " config user.name x", " branch",
                     " -D", " feature"},
         argvs |-> {Git}],
     order |->
        [pieces |-> {"rm x", " > f", "$(rm x)", " | ", "bash -c x", " ; ",
                     "git push", "echo hi"},
         argvs |-> {General}],
     env |->
        [pieces |-> {"FOO=bar ", "BAZ=1 ", "rm f", "ls", " a=b", "--foo=bar ", " ; "},
         argvs |-> BothModes],
     indirect |->
        [pieces |-> {"command ", "builtin ", "-p ", "/bin/", "rm f", "ls", "git push"},
         argvs |-> BothModes],
     nobase |->
        [pieces |-> {"-x ", "--foo ", "FOO=1 ", "command ", "builtin ", "ls ", "; ", "| "},
         argvs |-> BothModes],
     sed |->
        [pieces |-> {"sed ", "-i ", "--in-place ", "-i.bak ", "-ni ", "-n ", "p f ", "| "},
         argvs |-> BothModes],
     inline |->
        [pieces |-> {"python3 ", "node ", "bash ", "-c ", "-e ", "x ", "| ", "; "},
         argvs |-> {General}],
     continued |->
        [pieces |-> {"\\\n", "rm ", "-rf x", "true; ", "echo x ", ">", "/dev/null", "f"},
         argvs |-> BothModes],
     letters |->
        [pieces |-> {"RM", "rm", "GIT", "git", "Ls", " f", " log", " push"},
         argvs |-> BothModes],
     gitglobal |->
        [pieces |-> {"git ", "-C dir ", "--no-pager ", "-c a=b ", "push", "commit", "log", " ; "},
         argvs |-> {General}],
     strict |->
        [pieces |-> {"git ", "stash drop", "config", "rm x", "bash", " | ", "$(", ")"},
         argvs |-> BothModes],
     modes |->
        [pieces |-> {"rm x", "git log", "docker ps", " ; "},
         argvs |-> {<<Program>>, General, Git,
                    <<Program, "--mode", "audit">>, <<Program, "--mode">>,
                    <<Program, "git-readonly">>,
                    <<Program, "--verbose", "--mode", "git-readonly">>,
                    <<Program, "--mode", "--mode", "git-readonly">>}]]

\* A well-formed PreToolUse payload for a Bash call.
Payload(command) == ToolInput(Command(JStr(command)))

\* Payloads that do not have that shape, or carry no command text.
MalformedPayloads ==
    {Invalid, JNull, JNum(5), JStr("rm x"), JList(<<>>), EmptyObj,
     ToolInput(JNull), ToolInput(JStr("rm x")), ToolInput(JList(<<>>)),
     ToolInput(EmptyObj),
     ToolInput(Command(JNull)), ToolInput(Command(JNum(0))),
     ToolInput(Command(JNum(5))), ToolInput(Command(JBool(FALSE))),
     ToolInput(Command(JBool(TRUE))), ToolInput(Command(JList(<<>>))),
     ToolInput(Command(JList(<<"rm x">>))), ToolInput(Command(EmptyObj)),
     ToolInput(Command(JStr(""))), ToolInput(Command(JStr(" \n")))}

\* No hook process has run; nothing is typed.  Standard input is empty,
\* which is not JSON.
InitOn(names) ==
    /\ corpus \in names
    /\ typed = ""
    /\ pieces = 0
    /\ argv = <<Program>>
    /\ stdin = Invalid
    /\ pc = "typing"
    /\ exit_code = 0
    /\ stdout = ""
    /\ tmp = <<>>
    /\ disk = {}
    /\ formatted = <<>>

Init == InitOn(DOMAIN Corpus)

\* The agent extends the command line it is about to submit.
Type(piece) ==
    /\ pc = "typing"
    /\ pieces < MaxPieces
    /\ typed' = typed \o piece
    /\ pieces' = pieces + 1
    /\ UNCHANGED <<corpus, argv, stdin, pc, exit_code, stdout, tmp, disk, formatted>>

\* One run of the hook process, from start to exit.
Hook(args, input) ==
    /\ pc = "typing"
    /\ argv' = args
    /\ stdin' = input
    /\ \E end \in {main(args, input)} :
           exit_code' = end.exit_code /\ stdout' = end.stdout
    /\ pc' = "exited"
    /\ UNCHANGED <<corpus, typed, pieces, tmp, disk, formatted>>

\* The hook runs on the Bash call that carries the typed command line.
RunOnCommand(args) == Hook(args, Payload(typed))

\* The hook runs on input of another shape.
RunOnMalformed(args, input) == typed = "" /\ Hook(args, input)

Next ==
    \/ \E piece \in Corpus[corpus].pieces : Type(piece)
    \/ \E args \in Corpus[corpus].argvs : RunOnCommand(args)
    \/ \E args \in Corpus[corpus].argvs, input \in MalformedPayloads :
           RunOnMalformed(args, input)

Spec == Init /\ [][Next]_vars

\* The same machine on one corpus.
SpecChain == InitOn({"chain"}) /\ [][Next]_vars
SpecSubst == InitOn({"subst"}) /\ [][Next]_vars
SpecRedirect == InitOn({"redirect"}) /\ [][Next]_vars
SpecBypass == InitOn({"bypass"}) /\ [][Next]_vars
SpecPipe == InitOn({"pipe"}) /\ [][Next]_vars
SpecDeny == InitOn({"deny"}) /\ [][Next]_vars
SpecGitSub == InitOn({"gitsub"}) /\ [][Next]_vars
SpecStash == InitOn({"stash"}) /\ [][Next]_vars
SpecGitArgs == InitOn({"gitargs"}) /\ [][Next]_vars
SpecModes == InitOn({"modes"}) /\ [][Next]_vars
SpecOrder == InitOn({"order"}) /\ [][Next]_vars
SpecEnv == InitOn({"env"}) /\ [][Next]_vars
SpecIndirect == InitOn({"indirect"}) /\ [][Next]_vars
SpecNoBase == InitOn({"nobase"}) /\ [][Next]_vars
SpecSed == InitOn({"sed"}) /\ [][Next]_vars
SpecInline == InitOn({"inline"}) /\ [][Next]_vars
SpecContinued == InitOn({"continued"}) /\ [][Next]_vars
SpecLetters == InitOn({"letters"}) /\ [][Next]_vars
SpecGitGlobal == InitOn({"gitglobal"}) /\ [][Next]_vars
SpecStrict == InitOn({"strict"}) /\ [][Next]_vars


\* ------------------------------------------------------------------
\* The batch formatter: collect-edited-files.py and format-on-stop.py
\* ------------------------------------------------------------------

\* The longest edited-files temp file, in lines.
MaxLines == 2

\* The sessions that run hooks, and the source files they edit.
Sessions == {"s1", "s2"}
Paths == {"src/a.py", "notes.txt"}

PYTHON_EXTS == {".py", ".pyi"}
GO_EXTS == {".go"}
BIOME_EXTS == {".js", ".jsx", ".ts", ".tsx", ".mjs", ".cjs", ".mts", ".cts", ".css"}

\* str.lower() on one character, and on a string.
LowerOf ==
    [A |-> "a", B |-> "b", C |-> "c", D |-> "d", E |-> "e", F |-> "f", G |-> "g",
     H |-> "h", I |-> "i", J |-> "j", K |-> "k", L |-> "l", M |-> "m", N |-> "n",
     O |-> "o", P |-> "p", Q |-> "q", R |-> "r", S |-> "s", T |-> "t", U |-> "u",
     V |-> "v", W |-> "w", X |-> "x", Y |-> "y", Z |-> "z"]

RECURSIVE Lower(_)
Lower(s) ==
    IF Len(s) = 0 THEN ""
    ELSE IF Len(s) = 1 THEN (IF s \in DOMAIN LowerOf THEN LowerOf[s] ELSE s)
    ELSE Lower(SubSeq(s, 1, Len(s) \div 2)) \o Lower(SubSeq(s, Len(s) \div 2 + 1, Len(s)))

\* Path(file_path).suffix: the final component from its last dot on,
\* "" when it has no dot past its first character or ends in one.
Suffix(file_path) ==
    LET name == IF Contains(file_path, "/") THEN AfterLastSlash(file_path) ELSE file_path
        dots == {i \in 2..Len(name) : Char(name, i) = "."}
    IN  IF dots = {} \/ Max(dots) = Len(name) THEN "" ELSE From(name, Max(dots))

\* format_file: the formatter the extension selects, None for none.
format_file(file_path) ==
    LET ext == Lower(Suffix(file_path))
    IN  IF ext \in PYTHON_EXTS THEN "black"
        ELSE IF ext \in GO_EXTS THEN "gofmt"
        ELSE IF ext \in BIOME_EXTS THEN "biome"
        ELSE None

\* A temp file: whether it exists, whether open() on it succeeds, and
\* its lines.
Absent == [exists |-> FALSE, accessible |-> FALSE, lines |-> <<>>]
TempFile(lines) == [exists |-> TRUE, accessible |-> TRUE, lines |-> lines]

\* The payloads of the two hooks.
CollectPayload(session_id, file_path) ==
    JObj([k \in {"session_id", "tool_input"} |->
             IF k = "session_id" THEN JStr(session_id)
             ELSE JObj([j \in {"file_path"} |-> JStr(file_path)])])
StopPayload(session_id, active) ==
    JObj([k \in {"session_id", "stop_hook_active"} |->
             IF k = "session_id" THEN JStr(session_id) ELSE JBool(active)])
SessionOnly(session_id) == JObj([k \in {"session_id"} |-> JStr(session_id)])

CollectPayloads ==
    {Invalid, JList(<<>>), EmptyObj, SessionOnly("s1")}
        \cup {CollectPayload(s, p) : s \in Sessions \cup {""}, p \in Paths \cup {""}}
StopPayloads ==
    {Invalid, JList(<<>>), EmptyObj}
        \cup {SessionOnly(s) : s \in Sessions}
        \cup {StopPayload(s, a) : s \in Sessions \cup {""}, a \in BOOLEAN}

\* How a run of a formatter hook ends: its exit status, the temp files
\* and what went to the formatters.
End(status, files, out) == [exit_code |-> status, tmp |-> files, formatted |-> out]

\* collect-edited-files.py main(): append the edited path to the
\* session's temp file.
collect_main(input, files, existing) ==
    LET session_id == Get(input, "session_id", JStr(""))
        tool_input == Get(input, "tool_input", EmptyObj)
        file_path == Get(tool_input, "file_path", JStr(""))
        file == files[session_id.v]
    IN  IF input.t = "invalid" THEN End(0, files, formatted)
        ELSE IF input.t # "obj" THEN End(1, files, formatted)
        ELSE IF tool_input.t # "obj" THEN End(1, files, formatted)
        ELSE IF ~Truthy(file_path) \/ ~Truthy(session_id) THEN End(0, files, formatted)
        ELSE IF file_path.v \notin existing THEN End(0, files, formatted)
        ELSE IF file.exists /\ ~file.accessible THEN End(0, files, formatted)
        ELSE End(0, [files EXCEPT ![session_id.v] =
                        TempFile(Append(file.lines, file_path.v))], formatted)

\* The loop of format-on-stop.py main() over raw_paths: stripped,
\* non-empty, first occurrences, existing files.
Deduplicate(raw_paths, existing) ==
    LET stripped == [k \in 1..Len(raw_paths) |-> Strip(raw_paths[k])]
        Kept(k) == /\ stripped[k] # ""
                   /\ \A j \in 1..(k - 1) : stripped[j] # stripped[k]
                   /\ stripped[k] \in existing
        kept == {k \in 1..Len(raw_paths) : Kept(k)}
        Nth(n) == CHOOSE k \in kept : Cardinality({j \in kept : j < k}) = n - 1
    IN  [n \in 1..Cardinality(kept) |-> stripped[Nth(n)]]

\* format-on-stop.py main(): read the session's temp file, remove it,
\* format what it lists.
stop_main(input, files, existing) ==
    LET stop_hook_active == Get(input, "stop_hook_active", JNull)
        session_id == Get(input, "session_id", JStr(""))
        file == files[session_id.v]
        removed == [files EXCEPT ![session_id.v] = Absent]
        paths == Deduplicate(file.lines, existing)
    IN  IF input.t = "invalid" THEN End(0, files, <<>>)
        ELSE IF input.t # "obj" THEN End(1, files, <<>>)
        ELSE IF Truthy(stop_hook_active) THEN End(0, files, <<>>)
        ELSE IF ~Truthy(session_id) THEN End(0, files, <<>>)
        ELSE IF ~file.exists THEN End(0, files, <<>>)
        ELSE IF ~file.accessible THEN End(0, removed, <<>>)
        ELSE End(0, removed,
                 [n \in 1..Len(paths) |-> <<paths[n], format_file(paths[n])>>])

\* No hook has run, no temp file exists, every source file does.
InitFormat ==
    /\ corpus = "format"
    /\ typed = ""
    /\ pieces = 0
    /\ argv = <<"format-on-stop.py">>
    /\ stdin = Invalid
    /\ pc = "idle"
    /\ exit_code = 0
    /\ stdout = ""
    /\ tmp = [s \in Sessions |-> Absent]
    /\ disk = Paths
    /\ formatted = <<>>

\* One run of a formatter hook, from start to exit.
FormatHook(program, input, end) ==
    /\ argv' = <<program>>
    /\ stdin' = input
    /\ exit_code' = end.exit_code
    /\ tmp' = end.tmp
    /\ formatted' = end.formatted
    /\ pc' = "exited"
    /\ UNCHANGED <<corpus, typed, pieces, stdout, disk>>

\* PostToolUse: the collector runs after an edit.
Collect(input) ==
    /\ input.t = "obj" /\ "session_id" \in DOMAIN input.v /\ input.v["session_id"].v # ""
           => Len(tmp[input.v["session_id"].v].lines) < MaxLines
    /\ \E end \in {collect_main(input, tmp, disk)} :
           FormatHook("collect-edited-files.py", input, end)

\* Stop: the batch formatter runs at the end of a turn.
Stop(input) ==
    \E end \in {stop_main(input, tmp, disk)} :
        FormatHook("format-on-stop.py", input, end)

\* The environment makes a session's temp file unopenable, or openable
\* again.
Chmod(session_id) ==
    /\ tmp[session_id].exists
    /\ tmp' = [tmp EXCEPT ![session_id].accessible = ~@]
    /\ pc' = "idle"
    /\ UNCHANGED <<corpus, typed, pieces, argv, stdin, exit_code, stdout, disk, formatted>>

\* The environment deletes a source file.
Remove(file_path) ==
    /\ file_path \in disk
    /\ disk' = disk \ {file_path}
    /\ pc' = "idle"
    /\ UNCHANGED <<corpus, typed, pieces, argv, stdin, exit_code, stdout, tmp, formatted>>

NextFormat ==
    \/ \E input \in CollectPayloads : Collect(input)
    \/ \E input \in StopPayloads : Stop(input)
    \/ \E session_id \in Sessions : Chmod(session_id)
    \/ \E file_path \in Paths : Remove(file_path)

SpecFormat == InitFormat /\ [][NextFormat]_vars

\* ------------------------------------------------------------------
\* Properties
\* ------------------------------------------------------------------

\* The mode the hook process was started in.
mode == ModeOf(argv, 1)

\* The hook has run on the typed command line.
Submitted == pc = "exited" /\ typed # ""

\* The two verdicts a caller can see.
Blocked == exit_code = 2 /\ stdout # ""
Allowed == exit_code = 0 /\ stdout = ""

\* The text before position k, and from position k on.
Before(s, k) == SubSeq(s, 1, k - 1)

\* The chaining operators, written with their blanks.
Separators == {" ; ", " && ", " || ", " & "}

\* C1: under general-readonly, when the typed line is A sep B for a
\* chaining operator sep (; && || &), a non-blank A and a line B that
\* the evaluator blocks on its own, the typed line is blocked.
C1_ChainingCannotHide ==
    (Submitted /\ mode = "general-readonly") =>
        \A k \in 1..Len(typed), sep \in Separators :
            (/\ At(typed, k, sep)
             /\ Strip(Before(typed, k)) # ""
             /\ check_general_readonly(From(typed, k + Len(sep))) # None)
            => Blocked

\* How many times the character ch occurs in the first k of s.
Count(s, ch, k) == Cardinality({i \in 1..k : Char(s, i) = ch})

\* The parentheses of s balance: as many close as open, and no prefix
\* closes more than it opens.
Balanced(s) ==
    /\ Count(s, "(", Len(s)) = Count(s, ")", Len(s))
    /\ \A k \in 1..Len(s) : Count(s, "(", k) >= Count(s, ")", k)

\* How many back-ticks the text s holds.
BackTicks(s) == Count(s, BQ, Len(s))

\* X is the inner command of a $(X) group of s opening at i and closing
\* at j: the parentheses between the two balance.
DollarGroup(s, i, j) ==
    /\ At(s, i, "$(") /\ j > i + 2 /\ At(s, j, ")")
    /\ Balanced(SubSeq(s, i + 2, j - 1))

\* X is the inner command of a back-tick span of s from i to j: i is an
\* opening back-tick, j the next back-tick.
BackTickSpan(s, i, j) ==
    /\ At(s, i, BQ) /\ j > i + 1 /\ At(s, j, BQ)
    /\ BackTicks(Before(s, i)) % 2 = 0
    /\ BackTicks(SubSeq(s, i + 1, j - 1)) = 0

\* C2: under general-readonly, a typed line (with balanced
\* parentheses) holding a $(X) group or a back-tick span X whose inner
\* command X the evaluator blocks is blocked, whatever X itself nests.
C2_SubstitutionCannotHide ==
    (Submitted /\ mode = "general-readonly" /\ Balanced(typed)) =>
        \A i \in 1..Len(typed), j \in 1..Len(typed) :
            (/\ DollarGroup(typed, i, j)
             /\ check_general_readonly(SubSeq(typed, i + 2, j - 1)) # None)
            \/ (/\ BackTickSpan(typed, i, j)
                /\ check_general_readonly(SubSeq(typed, i + 1, j - 1)) # None)
            => Blocked

\* The word that starts at position i of s: up to the next white space
\* or redirection operator.
WordAt(s, i) ==
    LET Ends(j) == j > Len(s) \/ Char(s, j) \in Whitespace \cup {">"}
    IN  SubSeq(s, i, Min({j \in i..(Len(s) + 1) : Ends(j)}) - 1)

\* The positions where an output redirection operator (> or >>) ends.
RedirectOperators(s) ==
    {k \in 1..Len(s) : At(s, k, ">") /\ ~At(s, k + 1, ">")}

\* The target of the redirection whose operator ends at k.
Target(s, k) == WordAt(s, SkipWS(s, k + 1))

RedirectReasons ==
    {"Blocked: output redirection (> or >>) is not allowed in read-only mode",
     "Blocked: output redirection is not allowed in read-only mode"}

\* C3: in both modes, a typed line with an output redirection whose
\* target is not exactly /dev/null is blocked, and a typed line whose
\* redirections all target /dev/null is not blocked by the redirect
\* rule.
C3_FailClosedOnRedirection ==
    Submitted =>
        /\ (\E k \in RedirectOperators(typed) :
                Target(typed, k) \notin {"", "/dev/null"}) => Blocked
        /\ (\A k \in RedirectOperators(typed) : Target(typed, k) = "/dev/null")
               => stdout \notin RedirectReasons

\* The characters of a command name, and of a path.
NameChars ==
    {"a", "b", "c", "d", "e", "f", "g", "h", "i", "j", "k", "l", "m", "n",
     "o", "p", "q", "r", "s", "t", "u", "v", "w", "x", "y", "z", "-", "_", "."}
PathChars == NameChars \cup {"/", "=", "+", ",", ":", "@", "%"}

IsName(w) == w # "" /\ \A k \in 1..Len(w) : Char(w, k) \in NameChars

\* p is a directory prefix: a path that ends in "/".
IsDirectoryPrefix(p) ==
    /\ p # "" /\ Char(p, Len(p)) = "/"
    /\ \A k \in 1..Len(p) : Char(p, k) \in PathChars

\* rest is a command name followed by its arguments.
IsInvocation(rest) == IsName(WordAt(rest, 1))

\* C4: in both modes, a typed line p + "b args", for a directory prefix
\* p or a backslash, gets the verdict of "b args".
C4_PrefixKeepsVerdict ==
    Submitted =>
        \A k \in 1..Len(typed) :
            (/\ IsDirectoryPrefix(Before(typed, k)) \/ Before(typed, k) = "\\"
             /\ IsInvocation(From(typed, k)))
            => exit_code = main(argv, Payload(From(typed, k))).exit_code

\* The resolved base of a pipe stage.
BaseOf(stage) == _resolve_prefix(_get_cmd_words(stage)).base

\* The stage is a write command: its base, or its leading words.
IsWrite(stage) ==
    LET resolved == _resolve_prefix(_get_cmd_words(stage))
        cmd_words == <<resolved.base>> \o Tail(resolved.words)
    IN  \/ resolved.base \in WRITE_COMMANDS
        \/ \E k \in 1..Len(WRITE_PREFIXES) : _matches_prefix(cmd_words, k)

\* Some stage after the first of its segment resolves to an interpreter.
PipesIntoInterpreter(command) ==
    \E s \in Range(StagesOf(command)) :
        s.i > 0 /\ BaseOf(s.stage) \in INTERPRETERS

\* No redirection, no substitution, and every stage a command that is
\* neither an interpreter nor a write command.
PlainPipeline(command) ==
    /\ ~Contains(command, ">") /\ ~Contains(command, "$(") /\ ~Contains(command, BQ)
    /\ \A s \in Range(StagesOf(command)) :
           BaseOf(s.stage) \notin INTERPRETERS /\ ~IsWrite(s.stage)

\* C5: under general-readonly, a typed line with a pipe stage after the
\* first of its segment whose resolved base is an interpreter is
\* blocked, and a typed line of non-interpreter, non-write stages
\* without redirection is allowed.
C5_PipeIntoInterpreterBlocked ==
    (Submitted /\ mode = "general-readonly") =>
        /\ PipesIntoInterpreter(typed) => Blocked
        /\ PlainPipeline(typed) => Allowed

\* C5 happens: curl piped into bash is blocked for the pipe.
C5_Witness ==
    /\ Submitted /\ mode = "general-readonly"
    /\ typed = "curl x | bash"
    /\ exit_code = 2
    /\ stdout = "Blocked: piping into 'bash' is not allowed in read-only mode"

\* Every stage of the line, and of every substitution extracted from
\* it, resolves to no base, to git or to a safe utility.
RECURSIVE OnlyGitAndUtilities(_)
OnlyGitAndUtilities(command) ==
    /\ \A s \in Range(StagesOf(command)) :
           BaseOf(s.stage) \in {"", "git"} \cup READONLY_UTILITIES
    /\ \A inner \in Range(_extract_substitution_commands(command)) :
           OnlyGitAndUtilities(inner)

\* C6: under git-readonly, a typed line with a stage, in a segment or
\* in an extracted substitution, whose base is neither git nor a safe
\* utility is blocked: only lines of git and safe-utility stages are
\* allowed.
C6_DefaultDeny ==
    (Submitted /\ mode = "git-readonly") =>
        (~OnlyGitAndUtilities(typed) => Blocked)

\* C6 happens: docker, which writes nothing, is blocked after a pipe.
C6_Witness ==
    /\ Submitted /\ mode = "git-readonly"
    /\ typed = "cat f | docker ps"
    /\ exit_code = 2
    /\ stdout = "Blocked: 'docker' is not in the read-only allowlist"

\* The position of the subcommand among the words of a git stage: the
\* first token after git that is neither a flag nor the value of -C,
\* -c, --git-dir or --work-tree; 0 when there is none.
RECURSIVE SubcommandIndex(_, _)
SubcommandIndex(words, k) ==
    IF k > Len(words) THEN 0
    ELSE IF words[k] \in GIT_VALUE_FLAGS THEN SubcommandIndex(words, k + 2)
    ELSE IF StartsWith(words[k], "-") THEN SubcommandIndex(words, k + 1)
    ELSE k

\* The typed line is one git stage: no chaining, pipe, redirection or
\* substitution, and git as its first word.
ShellOperators == {";", "&", "|", ">", "$", BQ, "\\", "="}
IsGitStage(command) ==
    /\ \A k \in 1..Len(command) : Char(command, k) \notin ShellOperators
    /\ Split(command) # <<>>
    /\ Split(command)[1] = "git"

\* The subcommand of a git stage has no restricted argument after it.
NoRestrictedArgument(words, k) ==
    LET sub == words[k]
        after == Rest(words, k + 1)
    IN  IF sub \notin DOMAIN GIT_RESTRICTED_ARGS THEN TRUE
        ELSE IF sub = "config" THEN Range(after) \cap GIT_CONFIG_SAFE_FLAGS # {}
        ELSE IF sub = "stash" THEN after # <<>> /\ after[1] \in {"list", "show"}
        ELSE Range(after) \cap GIT_RESTRICTED_ARGS[sub] = {}

\* C7: under git-readonly, a git stage whose subcommand (the first
\* non-flag token after git, the values of -C, -c, --git-dir and
\* --work-tree skipped) is outside the allowlist is blocked, one whose
\* subcommand is in the allowlist and has no restricted argument is
\* allowed, and one with no subcommand is allowed.
C7_GitSubcommandAllowlist ==
    (Submitted /\ mode = "git-readonly" /\ IsGitStage(typed)) =>
        LET words == Split(typed)
            k == SubcommandIndex(words, 2)
        IN  /\ (k > 0 /\ words[k] \notin GIT_SAFE_SUBCOMMANDS) => Blocked
            /\ (/\ k > 0 /\ words[k] \in GIT_SAFE_SUBCOMMANDS
                /\ NoRestrictedArgument(words, k)) => Allowed
            /\ k = 0 => Allowed

\* C8: under git-readonly, a git stage with subcommand stash is allowed
\* only when the token after stash is list or show, whichever global
\* options precede stash.
C8_StashListOrShowOnly ==
    (Submitted /\ mode = "git-readonly" /\ IsGitStage(typed)) =>
        LET words == Split(typed)
            k == SubcommandIndex(words, 2)
        IN  (k > 0 /\ words[k] = "stash" /\ exit_code = 0) =>
                (k < Len(words) /\ words[k + 1] \in {"list", "show"})

\* The subcommands blocked by a token of their restricted set.
TokenRestricted == {"branch", "tag", "remote", "worktree", "notes"}

\* C9: under git-readonly, a git stage with subcommand branch, tag,
\* remote, worktree or notes is blocked when a token after the
\* subcommand is in its restricted set, and a git stage with subcommand
\* config is blocked unless a token after config is one of --get,
\* --get-all, --list, -l, --get-regexp.
C9_RestrictedGitArguments ==
    (Submitted /\ mode = "git-readonly" /\ IsGitStage(typed)) =>
        LET words == Split(typed)
            k == SubcommandIndex(words, 2)
            after == Rest(words, k + 1)
        IN  /\ (/\ k > 0 /\ words[k] \in TokenRestricted
                /\ Range(after) \cap GIT_RESTRICTED_ARGS[words[k]] # {}) => Blocked
            /\ (/\ k > 0 /\ words[k] = "config"
                /\ Range(after) \cap GIT_CONFIG_SAFE_FLAGS = {}) => Blocked

\* Standard input is a PreToolUse payload with command text: an object
\* whose tool_input is an object whose command is a non-blank string.
HasCommandText(input) ==
    /\ input.t = "obj"
    /\ "tool_input" \in DOMAIN input.v
    /\ input.v["tool_input"].t = "obj"
    /\ "command" \in DOMAIN input.v["tool_input"].v
    /\ input.v["tool_input"].v["command"].t = "str"
    /\ Strip(input.v["tool_input"].v["command"].v) # ""

\* C10: in either mode, the hook run on standard input that is not
\* JSON, or is JSON without command text (top level not an object,
\* tool_input missing or not an object, command missing, not a string,
\* empty or blank), exits 0 and writes nothing to standard output.
C10_MalformedInputNoVerdict ==
    (pc = "exited" /\ ~HasCommandText(stdin)) => Allowed

\* The positions of sys.argv that hold --mode and have a successor.
ModeFlags(args) == {i \in 1..(Len(args) - 1) : args[i] = "--mode"}

\* The hook was asked for git-readonly: the value that follows the first
\* --mode is exactly git-readonly.
GitRequested(args) ==
    ModeFlags(args) # {} /\ args[Min(ModeFlags(args)) + 1] = "git-readonly"

\* What a caller sees of a reason: exit 2 with the reason, or exit 0 with
\* nothing written.
Reported(reason) ==
    IF reason = None THEN Allowed ELSE exit_code = 2 /\ stdout = reason

\* C11: the hook reports the git-readonly verdict only when the value
\* after --mode is exactly git-readonly; with no --mode, a --mode without
\* a value or any other value it reports the general-readonly verdict,
\* and never anything else because of the mode.
C11_ModeSelection ==
    (Submitted /\ Strip(typed) # "") =>
        IF GitRequested(argv)
        THEN Reported(check_git_readonly(typed))
        ELSE Reported(check_general_readonly(typed))

\* C11 happens: with an unknown mode, docker (which git-readonly denies)
\* is allowed as under general-readonly.
C11_Witness ==
    /\ Submitted /\ argv = <<Program, "--mode", "audit">>
    /\ typed = "docker ps"
    /\ check_git_readonly(typed) # None
    /\ Allowed

\* The last hook run was a Stop that carried this session id.
StoppedWith(session_id) ==
    /\ pc = "exited" /\ argv = <<"format-on-stop.py">>
    /\ stdin.t = "obj" /\ "session_id" \in DOMAIN stdin.v
    /\ stdin.v["session_id"].v = session_id

\* C12: when the Stop hook exits after an invocation that carries a
\* session id, that session's edited-files temp file does not exist,
\* whether or not it could be read and whether or not stop_hook_active
\* is set.
C12_StopAlwaysCleansUp ==
    \A session_id \in Sessions :
        StoppedWith(session_id) => ~tmp[session_id].exists

\* Every string an evaluator recurses on, at every level below command,
\* is strictly shorter than the string it was extracted from.
RECURSIVE EveryInnerShorter(_)
EveryInnerShorter(command) ==
    \A inner \in Range(_extract_substitution_commands(command)) :
        Len(inner) < Len(command) /\ EveryInnerShorter(inner)

\* How deep the evaluators recurse on command.
RECURSIVE RecursionDepth(_)
RecursionDepth(command) ==
    LET inners == Range(_extract_substitution_commands(command))
    IN  IF inners = {} THEN 0
        ELSE 1 + Max({RecursionDepth(inner) : inner \in inners})

\* C13: every substitution an evaluator recurses on is strictly shorter
\* than its caller's input, so the recursion is no deeper than the
\* input is long, and a run on the typed line ends with a reason
\* (exit 2) or with 'allowed' (exit 0, nothing written), never with a
\* fault.
C13_ClassificationTerminates ==
    /\ \A inner \in Range(_extract_substitution_commands(typed)) :
           Len(inner) < Len(typed)
    /\ EveryInnerShorter(typed)
    /\ RecursionDepth(typed) <= Len(typed)
    /\ Submitted => \/ Allowed
                    \/ exit_code = 2 /\ StartsWith(stdout, "Blocked: ")

\* C13 happens: a back-tick span nested in a $( ) group is evaluated two
\* levels down and the run ends with a reason.
C13_Witness ==
    /\ Submitted
    /\ typed = "$(echo " \o BQ \o "rm x" \o BQ \o ")"
    /\ RecursionDepth(typed) = 2
    /\ exit_code = 2

\* Whether rule n of the per-stage rules fires on a stage: 1 the
\* write-command set, 2 the blocked-prefix table, 3 pipe into an
\* interpreter, 4 the inline-execution flag.
StageRuleFires(n, s) ==
    LET resolved == _resolve_prefix(_get_cmd_words(s.stage))
        base == resolved.base
        cmd_words == <<base>> \o Tail(resolved.words)
    IN  /\ base # ""
        /\ CASE n = 1 -> base \in WRITE_COMMANDS
             [] n = 2 -> \E k \in 1..Len(WRITE_PREFIXES) : _matches_prefix(cmd_words, k)
             [] n = 3 -> s.i > 0 /\ base \in INTERPRETERS
             [] n = 4 -> /\ base \in DOMAIN INLINE_FLAGS
                         /\ INLINE_FLAGS[base] \in Range(Tail(resolved.words))

\* The reason rule n gives for a stage it fires on.
StageRuleReason(n, s) ==
    LET resolved == _resolve_prefix(_get_cmd_words(s.stage))
        base == resolved.base
        cmd_words == <<base>> \o Tail(resolved.words)
        first == Min({k \in 1..Len(WRITE_PREFIXES) : _matches_prefix(cmd_words, k)})
    IN  CASE n = 1 -> "Blocked: '" \o base \o "' is not allowed in read-only mode"
          [] n = 2 -> "Blocked: '" \o WRITE_PREFIXES[first]
                          \o "' is not allowed in read-only mode"
          [] n = 3 -> "Blocked: piping into '" \o base
                          \o "' is not allowed in read-only mode"
          [] n = 4 -> "Blocked: '" \o base \o " " \o INLINE_FLAGS[base]
                          \o "' inline execution is not allowed in read-only mode"

\* The reason of the earliest rule that fires on the line, None when no
\* rule fires: the redirect check, then the substitutions, then the
\* stages in order, each by its rules in order.
EarliestRuleReason(command) ==
    LET stages == StagesOf(command)
        Fired(k) == {n \in 1..4 : StageRuleFires(n, stages[k])}
        violating == {k \in 1..Len(stages) : Fired(k) # {}}
    IN  IF _has_redirect(command)
        THEN "Blocked: output redirection (> or >>) is not allowed in read-only mode"
        ELSE IF \E inner \in Range(_extract_substitution_commands(command)) :
                    check_general_readonly(inner) # None
        THEN "Blocked: command substitution contains a write operation"
        ELSE IF violating = {} THEN None
        ELSE StageRuleReason(Min(Fired(Min(violating))), stages[Min(violating)])

\* C14: under general-readonly the reason reported is that of the
\* earliest rule that fires, in the order redirect check, substitutions,
\* then stages left to right with write command, blocked prefix, pipe
\* into interpreter, inline flag; the line is allowed only when no rule
\* fires.
C14_RulePriority ==
    (Submitted /\ mode = "general-readonly" /\ Strip(typed) # "") =>
        Reported(EarliestRuleReason(typed))

\* C14 happens: a line with both rm and a file redirection reports the
\* redirection.
C14_Witness ==
    /\ Submitted /\ mode = "general-readonly"
    /\ typed = "rm x > f"
    /\ StageRuleFires(1, StagesOf("rm x")[1])
    /\ exit_code = 2
    /\ stdout = "Blocked: output redirection (> or >>) is not allowed in read-only mode"

\* The characters the shell gives a meaning inside a word.
ShellMeta == {";", "&", "|", ">", "<", "$", BQ, "\\", "(", ")"}

\* A token shaped like an environment assignment: it contains "=", does
\* not start with "-", and holds no shell operator.
AssignmentToken(w) ==
    /\ Contains(w, "=") /\ ~StartsWith(w, "-")
    /\ \A k \in 1..Len(w) : Char(w, k) \notin ShellMeta

\* The text is a non-empty run of assignment tokens, each followed by
\* white space.
AssignmentPrefix(p) ==
    /\ p # "" /\ Char(p, Len(p)) \in Whitespace
    /\ Split(p) # <<>>
    /\ \A k \in 1..Len(Split(p)) : AssignmentToken(Split(p)[k])

\* The words are the tokens without exactly their leading run of
\* assignment-shaped tokens.
LeadingRunDropped(tokens, words) ==
    \E n \in 0..Len(tokens) :
        /\ words = Rest(tokens, n + 1)
        /\ \A k \in 1..n : Contains(tokens[k], "=") /\ ~StartsWith(tokens[k], "-")
        /\ n < Len(tokens) =>
               ~(Contains(tokens[n + 1], "=") /\ ~StartsWith(tokens[n + 1], "-"))

\* C15: in both modes a typed line that starts with a run of
\* environment assignments gets the verdict of the line without them,
\* and the resolver drops from every stage exactly the leading run of
\* tokens that contain "=" and do not start with "-": a later token with
\* "=" and a flag such as --foo=bar are kept.
C15_AssignmentPrefixKeepsVerdict ==
    /\ \A s \in Range(StagesOf(typed)) :
           LeadingRunDropped(Split(s.stage), _get_cmd_words(s.stage))
    /\ Submitted =>
           \A k \in 2..(Len(typed) + 1) :
               AssignmentPrefix(Before(typed, k)) =>
                   LET alone == main(argv, Payload(From(typed, k)))
                   IN  exit_code = alone.exit_code /\ stdout = alone.stdout

\* C15 happens: rm behind two assignments is blocked as rm.
C15_Witness ==
    /\ Submitted /\ mode = "git-readonly"
    /\ typed = "FOO=bar BAZ=1 rm f"
    /\ _get_cmd_words(typed) = <<"rm", "f">>
    /\ exit_code = 2
    /\ stdout = "Blocked: 'rm' is not in the read-only allowlist"

\* The text is command or builtin (with or without a path or a
\* backslash before it), then flags only, then white space.
IndirectionPrefix(p) ==
    LET tokens == Split(p)
    IN  /\ p # "" /\ Char(p, Len(p)) \in Whitespace
        /\ tokens # <<>>
        /\ _base_name(tokens[1]) \in {"command", "builtin"}
        /\ \A k \in 2..Len(tokens) : StartsWith(tokens[k], "-")

\* The text starts with a command of its own: a name, with or without a
\* path before it, that is neither a flag nor command or builtin.
OwnCommand(rest) ==
    LET w == WordAt(rest, 1)
    IN  /\ w # "" /\ ~StartsWith(w, "-")
        /\ \A k \in 1..Len(w) : Char(w, k) \in NameChars \cup {"/"}
        /\ _base_name(w) \notin {"", "command", "builtin"}

\* C16: in both modes a typed line that starts with command or builtin,
\* then any flags, then a command with its arguments, gets the verdict
\* of that command with its arguments.
C16_IndirectionResolved ==
    Submitted =>
        \A k \in 2..Len(typed) :
            (IndirectionPrefix(Before(typed, k)) /\ OwnCommand(From(typed, k))) =>
                LET alone == main(argv, Payload(From(typed, k)))
                IN  exit_code = alone.exit_code /\ stdout = alone.stdout

\* C16 happens: rm behind builtin, a flag and a path is blocked as rm.
C16_Witness ==
    /\ Submitted /\ mode = "general-readonly"
    /\ typed = "builtin -p /bin/rm f"
    /\ exit_code = 2
    /\ stdout = "Blocked: 'rm' is not allowed in read-only mode"

\* The tokens of a stage name no command: flags only, assignments only,
\* or command or builtin followed by flags only.
NoUsableBase(tokens) ==
    /\ tokens # <<>>
    /\ \/ \A k \in 1..Len(tokens) : StartsWith(tokens[k], "-")
       \/ \A k \in 1..Len(tokens) : AssignmentToken(tokens[k])
       \/ /\ tokens[1] \in {"command", "builtin"}
          /\ \A k \in 2..Len(tokens) : StartsWith(tokens[k], "-")

InPlaceFlag(w) ==
    \/ w \in {"-i", "--in-place"}
    \/ StartsWith(w, "-i")
    \/ StartsWith(w, "-") /\ ~StartsWith(w, "--") /\ Contains(w, "i")

\* The stage runs sed with an in-place flag among its arguments.
SedInPlace(stage) ==
    LET tokens == Split(stage)
    IN  /\ tokens # <<>> /\ tokens[1] = "sed"
        /\ \E k \in 2..Len(tokens) : InPlaceFlag(tokens[k])

\* The stage runs sed with no in-place flag among its arguments.
SedPlain(stage) ==
    LET tokens == Split(stage)
    IN  /\ tokens # <<>> /\ tokens[1] = "sed"
        /\ \A k \in 2..Len(tokens) : ~InPlaceFlag(tokens[k])

\* C18: in both modes a line with a sed stage that has an in-place flag
\* at any position among its arguments is blocked; under git-readonly a
\* line whose stages are all sed stages without such a flag is allowed.
C18_SedInPlaceBlocked ==
    Submitted =>
        /\ (\E s \in Range(StagesOf(typed)) : SedInPlace(s.stage)) => exit_code = 2
        /\ ( /\ mode = "git-readonly" /\ StagesOf(typed) # <<>>
             /\ \A s \in Range(StagesOf(typed)) : SedPlain(s.stage) ) => Allowed

\* The interpreters with an inline-execution flag, each with its flag.
InlineFlagOf ==
    [b \in {"python", "python3", "bash", "sh", "zsh", "node", "perl", "ruby"} |->
        IF b \in {"node", "perl", "ruby"} THEN "-e" ELSE "-c"]

\* The stage's resolved base is such an interpreter.
InterpreterStage(stage) ==
    _resolve_prefix(_get_cmd_words(stage)).base \in DOMAIN InlineFlagOf

\* The interpreter's flag is a token among the stage's arguments.
HasInlineFlag(stage) ==
    LET resolved == _resolve_prefix(_get_cmd_words(stage))
    IN  InlineFlagOf[resolved.base] \in Range(Tail(resolved.words))

\* C19: under general-readonly a line with a stage, at any position,
\* whose base is an interpreter with an inline-execution flag and whose
\* arguments hold that exact flag token is blocked; a line that is one
\* such interpreter stage without the flag token is allowed, and no line
\* without such a stage is reported as inline execution.
C19_InlineExecutionBlocked ==
    (Submitted /\ mode = "general-readonly") =>
        LET stages == StagesOf(typed)
            inline == {k \in 1..Len(stages) :
                          InterpreterStage(stages[k].stage) /\ HasInlineFlag(stages[k].stage)}
        IN  /\ inline # {} => exit_code = 2
            /\ inline = {} => ~Contains(stdout, "inline execution")
            /\ ( /\ Len(stages) = 1 /\ InterpreterStage(stages[1].stage)
                 /\ inline = {} ) => Allowed

\* C19 happens: the flag after a script name still blocks the line.
C19_Witness ==
    /\ Submitted /\ mode = "general-readonly"
    /\ typed = "python3 x -c "
    /\ exit_code = 2
    /\ stdout = "Blocked: 'python3 -c' inline execution is not allowed in read-only mode"

\* The line is continued across physical lines: it holds a
\* backslash-newline and does not end with one.
Continued(command) ==
    /\ Contains(command, "\\\n")
    /\ ~At(command, Len(command) - 1, "\\\n")

\* C20: in both modes a line continued across physical lines gets the
\* verdict of the same line with every backslash-newline replaced by
\* one space.
C20_ContinuationIsSpace ==
    (Submitted /\ Continued(typed)) =>
        exit_code = main(argv, Payload(ReplaceContinuation(typed))).exit_code

\* The line with its command name, the first word, in lower case.
LowerBase(command) ==
    LET b == WordAt(command, 1)
    IN  Lower(b) \o From(command, Len(b) + 1)

\* C21: in both modes a line whose command name is written in any mix
\* of upper and lower case gets the verdict of the line with the name
\* in lower case.
C21_BaseCaseInsensitive ==
    (Submitted /\ mode \in {"general-readonly", "git-readonly"}) =>
        LET lowered == main(argv, Payload(LowerBase(typed)))
        IN  exit_code = lowered.exit_code

\* The destructive subcommands of the general-readonly prefix table.
DestructiveSubcommands ==
    {"push", "reset", "clean", "merge", "rebase", "commit", "cherry-pick",
     "revert", "pull", "restore"}

\* The subcommand the git-readonly scan finds for a stage, None when
\* the stage is not a git stage or has no subcommand.
ScannedSubcommand(stage) ==
    LET resolved == _resolve_prefix(_get_cmd_words(stage))
    IN  IF resolved.base = "git" /\ Len(resolved.words) >= 2
        THEN GitSubcommand(resolved.words, 2, FALSE)
        ELSE None

\* C22: under general-readonly a line with a git stage for which the
\* git-readonly scan finds a destructive subcommand, whatever global
\* options precede it, is blocked.
C22_EvaluatorsAgreeOnSubcommand ==
    (Submitted /\ mode = "general-readonly") =>
        ((\E s \in Range(StagesOf(typed)) :
              ScannedSubcommand(s.stage) \in DestructiveSubcommands)
            => exit_code = 2)

\* The line invokes git config, in one of its stages or inside one of
\* its substitutions.
RECURSIVE HasGitConfig(_)
HasGitConfig(command) ==
    \/ \E s \in Range(StagesOf(command)) : ScannedSubcommand(s.stage) = "config"
    \/ \E inner \in Range(_extract_substitution_commands(command)) :
           HasGitConfig(inner)

\* C23: a line without git config that general-readonly blocks is
\* blocked by git-readonly too, and one that git-readonly allows is
\* allowed by general-readonly too.
C23_AllowlistAtLeastAsStrict ==
    (Submitted /\ ~HasGitConfig(typed)) =>
        /\ (mode = "general-readonly" /\ Blocked) => main(Git, stdin).exit_code = 2
        /\ (mode = "git-readonly" /\ Allowed) => main(General, stdin).exit_code = 0

\* C23 happens: a stash drop, blocked by the prefix table of
\* general-readonly, is blocked under git-readonly as well.
C23_Witness ==
    /\ Submitted /\ mode = "general-readonly"
    /\ typed = "git stash drop"
    /\ ~HasGitConfig(typed)
    /\ Blocked
    /\ main(Git, stdin).stdout = "Blocked: 'git stash drop' is not allowed in read-only mode"
=============================================================================
